---- MODULE Spec2Model ----
(***************************************************************************)
(* Model of csap_node_app.py: the column-wise chunk planning of get_meta   *)
(* and the per-window fetch/merge/persist of read.                         *)
(*                                                                         *)
(* Python's None is modelled as the empty sequence and a present value x   *)
(* as <<x>>, so that optional values stay comparable.                      *)
(***************************************************************************)
EXTENDS Integers, Sequences, FiniteSets, TLC

VARIABLES
    \* ---- get_meta ----
    meta,               \* the DD03L records fetched for the table, [FIELDNAME, LENG]
    req_fields,         \* argument `fields`: None or a list of field names
    sap_buffer_size,    \* argument `sap_buffer_size`
    meta_pc,            \* "call" | "return" | "raised"
    meta_vchunks,       \* metadata['vchunks'] of the returned dictionary
    \* ---- read ----
    req_vchunks,        \* argument `vchunks` as the request carried it
    sqlalchemy_cnxnstr, \* argument: None or <<connection string>>
    keep,               \* argument `keep`
    pc,                 \* "loop" | "return" | "raised"
    vchunks,            \* the list object `vchunks` (its first element is aliased by `fields`)
    vi,                 \* index of the vchunk the for loop takes next
    data,               \* local `data`: None or <<list of rows>>
    fields,             \* local `fields`: None or <<list of field names>>
    calls,              \* FIELDS argument of every BBP_RFC_READ_TABLE call issued, in order
    responses,          \* chunk_response['DATA'] of every call that returned, in order
    df,                 \* local `df`: None or <<[columns, rows]>>
    to_sql,             \* what df.to_sql received: None or <<[columns, rows]>>
    json_out            \* the returned json: None or <<[STATUS, COUNT, DATA]>>

meta_vars == <<meta, req_fields, sap_buffer_size, meta_pc, meta_vchunks>>
read_vars == <<req_vchunks, sqlalchemy_cnxnstr, keep, pc, vchunks, vi, data,
               fields, df, calls, responses, to_sql, json_out>>
vars == <<meta_vars, read_vars>>

\* ------------------------------------------------------------------------
\* Python values
\* ------------------------------------------------------------------------
None == <<>>
Some(x) == <<x>>
IsNone(o) == Len(o) = 0
Val(o) == o[1]

\* ------------------------------------------------------------------------
\* Bounds
\* ------------------------------------------------------------------------
MaxFields == 4      \* longest `fields` list given to get_meta
MaxRows == 2        \* most rows one remote read returns

\* default of the sap_buffer_size parameter
DefaultBufferSize == 400

\* ------------------------------------------------------------------------
\* get_meta
\* ------------------------------------------------------------------------
\* field names a caller may send; "b" is B in lower case, "Z" is in no table
FieldNames == {"A", "B", "C", "D", "b", "Z"}

\* str.upper on the names above
upper(field) ==
    CASE field = "b" -> "B"
      [] OTHER -> field

\* DD03L contents of the tables the model talks to (LENG 0 marks .INCLUDE rows)
Catalogs ==
    { << [FIELDNAME |-> "A", LENG |-> 100], [FIELDNAME |-> "B", LENG |-> 50],
         [FIELDNAME |-> "C", LENG |-> 500], [FIELDNAME |-> "D", LENG |-> 30] >>,
      << [FIELDNAME |-> "A", LENG |-> 100], [FIELDNAME |-> ".INCLUDE", LENG |-> 0],
         [FIELDNAME |-> "B", LENG |-> 100], [FIELDNAME |-> "C", LENG |-> 100],
         [FIELDNAME |-> "D", LENG |-> 100] >>,
      << [FIELDNAME |-> "A", LENG |-> 450], [FIELDNAME |-> "B", LENG |-> 30],
         [FIELDNAME |-> "C", LENG |-> 60], [FIELDNAME |-> "D", LENG |-> 60] >> }

Budgets == {100, 150, DefaultBufferSize}

\* meta = meta[meta.LENG > 0]
PositiveLeng(m) == SelectSeq(m, LAMBDA r : r.LENG > 0)

\* meta.index.tolist()
IndexList(m) == [i \in 1..Len(m) |-> m[i].FIELDNAME]

\* does meta.loc[name, 'LENG'] find a row
InIndex(m, name) == \E i \in 1..Len(m) : m[i].FIELDNAME = name

\* meta.loc[name, 'LENG']
Leng(m, name) == m[CHOOSE i \in 1..Len(m) : m[i].FIELDNAME = name].LENG

\* PlanStep with the overflowing field forgotten (`chunk = []`).
PlanStep_DropsField(st, field, length, budget) ==
    LET sum == st.chunksum + length IN
    IF sum > budget
    THEN [vchunks |-> Append(st.vchunks, st.chunk), chunksum |-> 0,
          chunk |-> <<>>]
    ELSE [vchunks |-> st.vchunks, chunksum |-> sum,
          chunk |-> Append(st.chunk, field)]

\* One pass of the body of `for field in fields` on the loop state
\* st = [vchunks, chunksum, chunk], after the width lookup succeeded.
PlanStep(st, field, length, budget) ==
    LET sum == st.chunksum + length IN
    IF sum > budget
    THEN [vchunks |-> Append(st.vchunks, st.chunk), chunksum |-> 0,
          chunk |-> <<field>>]
    ELSE [vchunks |-> st.vchunks, chunksum |-> sum,
          chunk |-> Append(st.chunk, field)]

\* The for loop from position i on; a failed lookup (KeyError) ends it.
RECURSIVE PlanLoop(_, _, _, _, _)
PlanLoop(m, flds, i, st, budget) ==
    IF i > Len(flds) THEN [raised |-> FALSE, st |-> st]
    ELSE IF ~InIndex(m, upper(flds[i])) THEN [raised |-> TRUE, st |-> st]
    ELSE PlanLoop(m, flds, i + 1,
                  PlanStep(st, flds[i], Leng(m, upper(flds[i])), budget), budget)

\* `if chunk: vchunks.append(chunk)`
PlanClose(st) ==
    IF Len(st.chunk) > 0 THEN Append(st.vchunks, st.chunk) ELSE st.vchunks

\* the list the loop runs over: `fields`, or every field of the table
EffectiveFields(m, flds) ==
    IF IsNone(flds) THEN IndexList(PositiveLeng(m)) ELSE Val(flds)

\* Lines 93-110 as a whole
PlanVChunks(m, flds, budget) ==
    LET r == PlanLoop(PositiveLeng(m), EffectiveFields(m, flds), 1,
                      [vchunks |-> <<>>, chunksum |-> 0, chunk |-> <<>>], budget)
    IN [raised |-> r.raised, vchunks |-> PlanClose(r.st)]

RECURSIVE SeqsUpTo(_, _)
SeqsUpTo(S, n) ==
    IF n = 0 THEN {<<>>}
    ELSE LET shorter == SeqsUpTo(S, n - 1)
         IN shorter \cup {Append(s, x) : s \in {t \in shorter : Len(t) = n - 1}, x \in S}

ReadIdle ==
    /\ req_vchunks = <<>> /\ sqlalchemy_cnxnstr = None /\ keep = FALSE
    /\ pc = "idle" /\ vchunks = <<>> /\ vi = 1 /\ data = None /\ fields = None
    /\ df = None /\ calls = <<>> /\ responses = <<>> /\ to_sql = None
    /\ json_out = None

MetaInit ==
    /\ meta \in Catalogs
    /\ req_fields \in {None} \cup {Some(f) : f \in SeqsUpTo(FieldNames, MaxFields)}
    /\ sap_buffer_size \in Budgets
    /\ meta_pc = "call"
    /\ meta_vchunks = <<>>
    /\ ReadIdle

get_meta ==
    /\ meta_pc = "call"
    /\ LET r == PlanVChunks(meta, req_fields, sap_buffer_size) IN
       IF r.raised
       THEN /\ meta_pc' = "raised"
            /\ meta_vchunks' = <<>>
       ELSE /\ meta_pc' = "return"
            /\ meta_vchunks' = r.vchunks
    /\ UNCHANGED <<meta, req_fields, sap_buffer_size, read_vars>>

MetaNext == get_meta

MetaSpec == MetaInit /\ [][MetaNext]_vars

\* ------------------------------------------------------------------------
\* Properties of the chunk planning
\* ------------------------------------------------------------------------
RECURSIVE Flatten(_)
Flatten(ss) == IF Len(ss) = 0 THEN <<>> ELSE Head(ss) \o Flatten(Tail(ss))

RECURSIVE SumSeq(_)
SumSeq(ns) == IF Len(ns) = 0 THEN 0 ELSE Head(ns) + SumSeq(Tail(ns))

\* the list get_meta planned over, and the width of one of its fields
PlannedFields == EffectiveFields(meta, req_fields)
WidthOf(field) == Leng(PositiveLeng(meta), upper(field))
ChunkWidth(chunk) == SumSeq([j \in 1..Len(chunk) |-> WidthOf(chunk[j])])

\* C1: for a non-empty field list (all fields in the catalog) and a budget
\* of at least 1, the vchunks concatenated in order are exactly the input
\* field list: nothing omitted, duplicated or reordered.
C1_ConcatReproducesFields ==
    (meta_pc = "return" /\ Len(PlannedFields) > 0 /\ sap_buffer_size >= 1)
        => Flatten(meta_vchunks) = PlannedFields

\* a plan of three or more fields, one in lower case, cut into several vchunks
C1_Witness ==
    /\ meta_pc = "return"
    /\ Len(PlannedFields) >= 3
    /\ \E j \in 1..Len(PlannedFields) : PlannedFields[j] = "b"
    /\ Len(meta_vchunks) >= 2
    /\ Flatten(meta_vchunks) = PlannedFields

\* C2: every vchunk has summed width <= sap_buffer_size, unless it is one
\* single field that is wider than the budget on its own.
C2_ChunkWithinBudget ==
    meta_pc = "return" =>
        \A k \in 1..Len(meta_vchunks) :
            \/ ChunkWidth(meta_vchunks[k]) <= sap_buffer_size
            \/ /\ Len(meta_vchunks[k]) = 1
               /\ WidthOf(meta_vchunks[k][1]) > sap_buffer_size

\* C3: a field wider than the budget sits in a vchunk of its own.
C3_OverBudgetFieldAlone ==
    meta_pc = "return" =>
        \A k \in 1..Len(meta_vchunks) :
            \A j \in 1..Len(meta_vchunks[k]) :
                WidthOf(meta_vchunks[k][j]) > sap_buffer_size
                    => Len(meta_vchunks[k]) = 1

\* C4: no returned vchunk is empty, and an empty field list gives an empty
\* vchunk list.
C4_ChunksNonEmpty ==
    meta_pc = "return" =>
        /\ \A k \in 1..Len(meta_vchunks) : Len(meta_vchunks[k]) > 0
        /\ Len(PlannedFields) = 0 => meta_vchunks = <<>>

\* The greedy planner of the specification: close the current chunk only
\* when running sum + width > budget and the chunk is non-empty, then start
\* a chunk holding the field with the running sum set to its width.
RECURSIVE RefPlanLoop(_, _, _, _)
RefPlanLoop(flds, i, st, budget) ==
    IF i > Len(flds) THEN st
    ELSE LET w == WidthOf(flds[i]) IN
         IF st.chunksum + w > budget /\ Len(st.chunk) > 0
         THEN RefPlanLoop(flds, i + 1,
                  [vchunks |-> Append(st.vchunks, st.chunk), chunksum |-> w,
                   chunk |-> <<flds[i]>>], budget)
         ELSE RefPlanLoop(flds, i + 1,
                  [vchunks |-> st.vchunks, chunksum |-> st.chunksum + w,
                   chunk |-> Append(st.chunk, flds[i])], budget)

RefPlan(flds, budget) ==
    PlanClose(RefPlanLoop(flds, 1,
                  [vchunks |-> <<>>, chunksum |-> 0, chunk |-> <<>>], budget))

\* C5: the vchunk list get_meta computes is the reference planner's; in
\* particular [A:100, B:50, C:500, D:30] with budget 150 gives
\* [[A,B],[C],[D]].
C5_EqualsReferencePlanner ==
    meta_pc = "return" =>
        meta_vchunks = RefPlan(PlannedFields, sap_buffer_size)


\* ------------------------------------------------------------------------
\* read
\* ------------------------------------------------------------------------
\* Text is a sequence of characters. The remote table pads its cells with
\* blanks; the delimiter never occurs inside a cell.
RawCells == { <<"x", " ">>, <<" ", "y">> }

DELIMITER == "|"

\* datetime.utcnow().strftime('%Y-%m-%d %H:%M:%S'), taken once per call
timestamp == <<"t">>

\* the vchunks lists a /read request carries
VChunkLists ==
    { <<>>,
      << <<"A">> >>,
      << <<"A">>, <<"B">> >>,
      << <<"A", "B">>, <<"C">> >>,
      << <<"A">>, <<"B">>, <<"C">> >> }

\* gFIELDS
gFIELDS(flds) == [i \in 1..Len(flds) |-> [FIELDNAME |-> flds[i]]]

\* one WA line as the remote builds it: the cells joined by the delimiter
RECURSIVE Join(_, _)
Join(cells, sep) ==
    IF Len(cells) = 0 THEN <<>>
    ELSE IF Len(cells) = 1 THEN cells[1]
    ELSE cells[1] \o <<sep>> \o Join(Tail(cells), sep)

\* every WA line the remote can return for a FIELDS list of k fields
RECURSIVE CellRows(_)
CellRows(k) ==
    IF k = 0 THEN {<<>>}
    ELSE {Append(r, c) : r \in CellRows(k - 1), c \in RawCells}

WALines(k) == {[WA |-> Join(r, DELIMITER)] : r \in CellRows(k)}

\* every DATA list of at most MaxRows lines for a FIELDS list of k fields
DataLists(k) == SeqsUpTo(WALines(k), MaxRows)

\* unicode.split
RECURSIVE split(_, _)
split(s, sep) ==
    IF \A i \in 1..Len(s) : s[i] # sep THEN <<s>>
    ELSE LET k == CHOOSE i \in 1..Len(s) :
                      s[i] = sep /\ \A j \in 1..(i - 1) : s[j] # sep
         IN <<SubSeq(s, 1, k - 1)>> \o split(SubSeq(s, k + 1, Len(s)), sep)

\* unicode.strip
RECURSIVE strip(_)
strip(s) ==
    IF Len(s) > 0 /\ s[1] = " " THEN strip(Tail(s))
    ELSE IF Len(s) > 0 /\ s[Len(s)] = " " THEN strip(SubSeq(s, 1, Len(s) - 1))
    ELSE s

\* map(unicode.strip, x['WA'].split('|'))
ParseRow(x) ==
    LET cells == split(x.WA, DELIMITER) IN [i \in 1..Len(cells) |-> strip(cells[i])]

\* chunk = [... for x in chunk_response['DATA']]
ParseChunk(rows) == [i \in 1..Len(rows) |-> ParseRow(rows[i])]

\* MergeColumns with the two halves of a row swapped.
MergeColumns_Swapped(d, chunk) ==
    [raised |-> Len(chunk) > Len(d),
     data |-> [idx \in 1..Len(chunk) |->
                  IF idx <= Len(d) THEN chunk[idx] \o d[idx] ELSE <<>>]]

\* data = [data[idx] + chunkrow for idx, chunkrow in enumerate(chunk)];
\* data[idx] raises IndexError when chunk has more rows than data.
MergeColumns(d, chunk) ==
    [raised |-> Len(chunk) > Len(d),
     data |-> [idx \in 1..Len(chunk) |->
                  IF idx <= Len(d) THEN d[idx] \o chunk[idx] ELSE <<>>]]

\* LoopItem taking the vchunks last to first.
LoopItem_Reversed(vs, i) == vs[Len(vs) + 1 - i]

\* the vchunk that pass i of `for vchunk in vchunks` takes
LoopItem(vs, i) == vs[i]

\* pd.DataFrame(data=data, columns=fields) and df['TIMESTAMP'] = timestamp.
\* The constructor raises when a row's width is not the number of columns.
DataFrame(d, f) ==
    LET rows == IF IsNone(d) THEN <<>> ELSE Val(d)
        cols == IF IsNone(f) THEN <<>> ELSE Val(f)
    IN [raised |-> \E i \in 1..Len(rows) : Len(rows[i]) # Len(cols),
        columns |-> Append(cols, "TIMESTAMP"),
        rows |-> [i \in 1..Len(rows) |-> Append(rows[i], timestamp)]]

\* df.to_csv(index=False): the header line, then one line per row
to_csv(frame) ==
    <<Join([i \in 1..Len(frame.columns) |-> <<frame.columns[i]>>], ",")>>
        \o [i \in 1..Len(frame.rows) |-> Join(frame.rows[i], ",")]

\* json_out['STATUS'] with keep ignored.
Status_SinkOnly(cnxnstr, k) == IF ~IsNone(cnxnstr) THEN "OK" ELSE "FAIL"

\* json_out['STATUS'] at the return: 'FAIL' unless the frame was written to
\* the database or is returned in the response
Status(cnxnstr, k) == IF ~IsNone(cnxnstr) \/ k THEN "OK" ELSE "FAIL"

\* Lines 170-189 with the locals data = d and fields = f
Return(d, f) ==
    LET frame == DataFrame(d, f) IN
    IF frame.raised
    THEN /\ pc' = "raised"
         /\ df' = None
         /\ to_sql' = None
         /\ json_out' = None
    ELSE /\ pc' = "return"
         /\ df' = Some([columns |-> frame.columns, rows |-> frame.rows])
         /\ to_sql' = IF ~IsNone(sqlalchemy_cnxnstr)
                      THEN Some([columns |-> frame.columns, rows |-> frame.rows])
                      ELSE None
         /\ json_out' = Some([STATUS |-> Status(sqlalchemy_cnxnstr, keep),
                              COUNT |-> Len(frame.rows),
                              DATA |-> IF keep THEN Some(to_csv(frame)) ELSE None])

MetaIdle ==
    /\ meta = <<>> /\ req_fields = None /\ sap_buffer_size = DefaultBufferSize
    /\ meta_pc = "idle" /\ meta_vchunks = <<>>

ReadInit ==
    /\ req_vchunks \in VChunkLists
    /\ sqlalchemy_cnxnstr \in {None, Some("sqlite:////home/cks/db.sqlite")}
    /\ keep \in BOOLEAN
    /\ pc = "loop"
    /\ vchunks = req_vchunks
    /\ vi = 1
    /\ data = None
    /\ fields = None
    /\ df = None
    /\ calls = <<>>
    /\ responses = <<>>
    /\ to_sql = None
    /\ json_out = None
    /\ MetaIdle

read_args == <<req_vchunks, sqlalchemy_cnxnstr, keep>>

\* `for vchunk in vchunks` over an empty list: straight to the return
read_no_vchunks ==
    /\ pc = "loop"
    /\ Len(vchunks) = 0
    /\ Return(data, fields)
    /\ UNCHANGED <<read_args, vchunks, vi, data, fields, calls, responses, meta_vars>>

\* cnxn.call raises: the exception leaves read
read_call_raises ==
    /\ pc = "loop"
    /\ vi <= Len(vchunks)
    /\ calls' = Append(calls, gFIELDS(LoopItem(vchunks, vi)))
    /\ pc' = "raised"
    /\ UNCHANGED <<read_args, vchunks, vi, data, fields, df, responses, to_sql,
                   json_out, meta_vars>>

\* chunk_response['DATA'] is None: break, then the return
read_no_data ==
    /\ pc = "loop"
    /\ vi <= Len(vchunks)
    /\ calls' = Append(calls, gFIELDS(LoopItem(vchunks, vi)))
    /\ responses' = Append(responses, None)
    /\ Return(data, fields)
    /\ UNCHANGED <<read_args, vchunks, vi, data, fields, meta_vars>>

\* chunk_response['DATA'] holds rows: parse, initialise or append columns,
\* and after the last vchunk the return
read_rows ==
    /\ pc = "loop"
    /\ vi <= Len(vchunks)
    /\ LET vchunk == LoopItem(vchunks, vi) IN
       \E DATA \in DataLists(Len(vchunk)) :
         LET chunk == ParseChunk(DATA)
             merged == IF IsNone(data) THEN [raised |-> FALSE, data |-> chunk]
                       ELSE MergeColumns(Val(data), chunk)
             newfields == IF IsNone(data) THEN vchunk ELSE Val(fields) \o vchunk
         IN
         /\ calls' = Append(calls, gFIELDS(vchunk))
         /\ responses' = Append(responses, Some(DATA))
         /\ IF merged.raised
            THEN /\ pc' = "raised"
                 /\ UNCHANGED <<vchunks, vi, data, fields, df, to_sql, json_out>>
            ELSE /\ data' = Some(merged.data)
                 /\ fields' = Some(newfields)
                 \* `fields` is the first vchunk's list object: += extends it in place
                 /\ vchunks' = [vchunks EXCEPT ![1] = newfields]
                 /\ vi' = vi + 1
                 /\ IF vi = Len(vchunks)
                    THEN Return(Some(merged.data), Some(newfields))
                    ELSE UNCHANGED <<pc, df, to_sql, json_out>>
    /\ UNCHANGED <<read_args, meta_vars>>

ReadNext == read_no_vchunks \/ read_call_raises \/ read_no_data \/ read_rows

ReadSpec == ReadInit /\ [][ReadNext]_vars

\* ------------------------------------------------------------------------
\* Properties of read
\* ------------------------------------------------------------------------
Ended == pc \in {"return", "raised"}

\* the header of a window that holds every requested field
FullHeader == Append(Flatten(req_vchunks), "TIMESTAMP")

\* every vchunk of a request of two or more was fetched and all fetches
\* returned the same number of rows
AllFetchedSameCount ==
    /\ Len(req_vchunks) >= 2
    /\ Len(responses) = Len(req_vchunks)
    /\ \A k \in 1..Len(responses) :
           /\ ~IsNone(responses[k])
           /\ Len(Val(responses[k])) = Len(Val(responses[1]))

\* row i of the window as the fetches delivered it, vchunk after vchunk
FetchedRow(i) ==
    Flatten([k \in 1..Len(responses) |-> ParseRow(Val(responses[k])[i])])

\* C6: when every fetch of a window of several vchunks returns the same
\* number of rows, assembled row i is the concatenation of row i of every
\* vchunk's result in vchunk order (then the timestamp), the row count is
\* the common count, and the header is the vchunks' fields in vchunk order
\* followed by TIMESTAMP.
C6_MergeByRowIndex ==
    (Ended /\ AllFetchedSameCount) =>
        LET n == Len(Val(responses[1])) IN
        /\ pc = "return"
        /\ Val(json_out).COUNT = n
        /\ Val(df).columns = FullHeader
        /\ Len(Val(df).rows) = n
        /\ \A i \in 1..n : Val(df).rows[i] = Append(FetchedRow(i), timestamp)
        /\ ~IsNone(sqlalchemy_cnxnstr) => to_sql = df

\* three vchunks merged over two rows and handed to the sink
C6_Witness ==
    /\ pc = "return"
    /\ AllFetchedSameCount
    /\ Len(responses) = 3
    /\ Len(Val(responses[1])) = 2
    /\ Val(responses[1])[1] # Val(responses[2])[1]
    /\ ~IsNone(to_sql)
    /\ Len(Val(to_sql).rows[2]) = 4

\* some fetch after the first returned a row count other than the first's
RowCountMismatch ==
    \E k \in 2..Len(responses) :
        /\ ~IsNone(responses[1])
        /\ ~IsNone(responses[k])
        /\ Len(Val(responses[k])) # Len(Val(responses[1]))

\* C7: when a non-first fetch returns more or fewer rows than the first, the
\* call ends in a failure: no merged dataset is persisted and no status OK
\* is reported.
C7_MismatchFails ==
    (Ended /\ RowCountMismatch) =>
        /\ IsNone(to_sql)
        /\ IsNone(json_out) \/ Val(json_out).STATUS # "OK"

\* C8: a dataset handed to the sink or returned inline holds every field of
\* every vchunk in its header and a cell for each of them in every row; a
\* window cut short after its first vchunks is neither persisted nor
\* reported OK. (Stated for windows whose first fetch delivered rows.)
C8_OnlyCompleteWindowsPersisted ==
    (pc = "return" /\ ~IsNone(data)) =>
        ((\/ ~IsNone(to_sql)
          \/ ~IsNone(Val(json_out).DATA)
          \/ Val(json_out).STATUS = "OK")
            => /\ Val(df).columns = FullHeader
               /\ \A i \in 1..Len(Val(df).rows) :
                      Len(Val(df).rows[i]) = Len(FullHeader))

\* the first fetch of the window reported no data
FirstFetchNoData == Len(responses) >= 1 /\ IsNone(responses[1])

\* C9 as stated: no data for the first vchunk ends the call with COUNT 0 and
\* STATUS OK whatever the sink target and the keep flag are.
C9_EmptyWindowAlwaysOK ==
    (Ended /\ FirstFetchNoData) =>
        /\ pc = "return"
        /\ Val(json_out).COUNT = 0
        /\ Val(json_out).STATUS = "OK"

\* C9 amended: no data for the first vchunk ends the call with COUNT 0, and
\* STATUS is OK exactly when a sink target is set or keep is true; with
\* sqlalchemy_cnxnstr None and keep false STATUS is FAIL.
C9_EmptyWindowOKWhenDelivered ==
    (Ended /\ FirstFetchNoData) =>
        /\ pc = "return"
        /\ Val(json_out).COUNT = 0
        /\ Val(df).rows = <<>>
        /\ Val(json_out).STATUS =
               (IF ~IsNone(sqlalchemy_cnxnstr) \/ keep THEN "OK" ELSE "FAIL")

\* an empty first window returned inline, with no sink
C9_Witness ==
    /\ pc = "return"
    /\ FirstFetchNoData
    /\ Len(req_vchunks) >= 2
    /\ IsNone(sqlalchemy_cnxnstr)
    /\ keep
    /\ Val(json_out).STATUS = "OK"
    /\ Val(json_out).COUNT = 0

\* the remote reads so far are the first vchunks of the request, in order,
\* one read each, and every read but the last one returned rows
ReadsArePrefix ==
    /\ Len(calls) <= Len(req_vchunks)
    /\ \A k \in 1..Len(calls) : calls[k] = gFIELDS(req_vchunks[k])
    /\ Len(responses) \in {Len(calls) - 1, Len(calls)}
    /\ \A k \in 1..(Len(calls) - 1) : ~IsNone(responses[k])

LastReadNoData ==
    /\ Len(responses) = Len(calls)
    /\ Len(responses) >= 1
    /\ IsNone(responses[Len(responses)])

\* C10 as stated: the reads of one call are a prefix of the vchunk list in
\* vchunk order, and the prefix is the whole list unless a read reported no
\* data; no data on the first read means exactly one read.
C10_ReadsWholeUnlessNoData ==
    /\ ReadsArePrefix
    /\ Ended => (Len(calls) = Len(req_vchunks) \/ LastReadNoData)
    /\ FirstFetchNoData => Len(calls) = 1

\* C10 amended: as above, but the prefix may also stop short because the
\* call was ended by an exception (a remote read that raised, or a vchunk
\* that returned more rows than the first).
C10_ReadsWholeUnlessNoDataOrRaised ==
    /\ ReadsArePrefix
    /\ Ended => (Len(calls) = Len(req_vchunks) \/ LastReadNoData \/ pc = "raised")
    /\ FirstFetchNoData => Len(calls) = 1

\* two of three vchunks read, the second reporting no data, and the call over
C10_Witness ==
    /\ pc = "return"
    /\ Len(req_vchunks) = 3
    /\ Len(calls) = 2
    /\ calls = <<gFIELDS(req_vchunks[1]), gFIELDS(req_vchunks[2])>>
    /\ LastReadNoData

====
